---- MODULE Spec2Model ----
(***************************************************************************)
(* Model of garmin_export.py: GarminLLMExporter.export_complete_dataset    *)
(* and everything it calls.  The run is sequential; every safe_call, every *)
(* loop advance and every return of a collector is one step.  The Garmin   *)
(* client is the environment: each API operation either returns a payload  *)
(* or raises an exception with a message.                                  *)
(***************************************************************************)
EXTENDS Integers, Sequences, FiniteSets, TLC

(* ------------------------------ bounds -------------------------------- *)
\* the largest days_back tried (main() accepts any integer)
MaxDaysBack == 7

(* ------------------------- program constants -------------------------- *)
DailyStride == 2
WeeklyStride == 7
DetailLimit == 5
FullExportLimit == 300

(* ------------------------------ dates --------------------------------- *)
\* A date object is its ordinal: day 1 is 2025-01-01.  timedelta arithmetic
\* is integer arithmetic on ordinals; isoformat() renders year, month, day.
BaseYear == 2025
DaysInYear == 365
MonthLens == <<31, 28, 31, 30, 31, 30, 31, 31, 30, 31, 30, 31>>
\* datetime.now().date() when the program starts: 2026-01-04
StartClock == 369

RECURSIVE MonthDay(_, _)
MonthDay(doy, m) ==
    IF doy <= MonthLens[m] THEN <<m, doy>> ELSE MonthDay(doy - MonthLens[m], m + 1)

\* year, month and day of the date with ordinal n
YearMonthDay(n) ==
    LET y == BaseYear + ((n - 1) \div DaysInYear)
        md == MonthDay(((n - 1) % DaysInYear) + 1, 1)
    IN <<y, md[1], md[2]>>

\* the calendar around the start of the run, computed once
Calendar == [n \in (StartClock - MaxDaysBack - 2)..(StartClock + 9) |-> YearMonthDay(n)]

\* date.isoformat(): "YYYY-MM-DD", kept as the triple of its three fields
IsoFormat(n) == Calendar[n]

\* comparison of two ISO strings (zero padded, so field by field)
IsoLess(a, b) ==
    \/ a[1] < b[1]
    \/ a[1] = b[1] /\ a[2] < b[2]
    \/ a[1] = b[1] /\ a[2] = b[2] /\ a[3] < b[3]

IsoLeq(a, b) == a = b \/ IsoLess(a, b)

(* ---------------------------- operations ------------------------------ *)
\* _discover_api_methods.methods_to_check
MethodsToCheck ==
    {"get_daily_steps", "get_body_battery", "get_floors", "get_weigh_ins",
     "get_menstrual_calendar_data", "get_pregnancy_summary", "get_steps_data",
     "get_stress_data", "get_heart_rates", "get_sleep_data", "get_hydration_data",
     "get_respiration_data", "get_pulse_ox", "get_training_readiness",
     "get_training_status", "get_rhr_day", "get_body_composition"}

\* the calls of export_user_profile, in the order the dict literal makes them
ProfileOps == <<"get_full_name", "get_unit_system", "get_user_summary", "get_devices">>
ProfileKeys == <<"full_name", "unit_system", "user_summary", "devices">>

\* the operations export_activities calls
ActivityOps == {"get_activities", "get_last_activity", "get_activity"}

\* the daily blocks with the capability check of the heart-rate block left out
DailyBlocksHeartRateUngated ==
    << [op |-> "get_stats_and_body", key |-> "daily_summaries",  gated |-> FALSE],
       [op |-> "get_heart_rates",    key |-> "heart_rate_data",  gated |-> FALSE],
       [op |-> "get_sleep_data",     key |-> "sleep_data",       gated |-> TRUE],
       [op |-> "get_stress_data",    key |-> "stress_data",      gated |-> TRUE],
       [op |-> "get_steps_data",     key |-> "steps_data",       gated |-> TRUE] >>

\* the per-date blocks of export_daily_health_metrics: operation, sequence it
\* appends to, and whether the call is guarded by api_methods.get(op, False)
DailyBlocks ==
    << [op |-> "get_stats_and_body", key |-> "daily_summaries",  gated |-> FALSE],
       [op |-> "get_heart_rates",    key |-> "heart_rate_data",  gated |-> TRUE],
       [op |-> "get_sleep_data",     key |-> "sleep_data",       gated |-> TRUE],
       [op |-> "get_stress_data",    key |-> "stress_data",      gated |-> TRUE],
       [op |-> "get_steps_data",     key |-> "steps_data",       gated |-> TRUE] >>

\* the per-date blocks of export_fitness_metrics
FitnessBlocks ==
    << [op |-> "get_training_readiness", key |-> "training_readiness", gated |-> TRUE],
       [op |-> "get_training_status",    key |-> "training_status",    gated |-> TRUE],
       [op |-> "get_rhr_day",            key |-> "resting_heart_rate", gated |-> TRUE],
       [op |-> "get_body_composition",   key |-> "body_composition",   gated |-> TRUE] >>

\* the per-date blocks of export_specialized_health
SpecializedBlocks ==
    << [op |-> "get_respiration_data", key |-> "respiration_data", gated |-> TRUE],
       [op |-> "get_pulse_ox",         key |-> "pulse_ox_data",    gated |-> TRUE],
       [op |-> "get_hydration_data",   key |-> "hydration_data",   gated |-> TRUE] >>

\* the two whole-period blocks of export_specialized_health
WomensBlocks ==
    << [op |-> "get_menstrual_calendar_data", key |-> "menstrual", gated |-> TRUE],
       [op |-> "get_pregnancy_summary",       key |-> "pregnancy", gated |-> TRUE] >>

SeqRange(s) == {s[i] : i \in 1..Len(s)}

\* operations called without consulting api_methods
BaseOps == SeqRange(ProfileOps) \cup ActivityOps \cup {"get_stats_and_body"}

\* every operation the program may look up on the client
AllOps == BaseOps \cup MethodsToCheck

(* ----------------------------- payloads ------------------------------- *)
\* An API result is opaque to the program except for: being None, being
\* empty (falsy), its length and items when it is the activity list, and
\* whether its text rendering mentions "bodyBattery".
None == [kind |-> "none", bb |-> FALSE, items |-> <<>>]
Empty == [kind |-> "empty", bb |-> FALSE, items |-> <<>>]
Data == [kind |-> "data", bb |-> FALSE, items |-> <<>>]
DataBB == [kind |-> "data", bb |-> TRUE, items |-> <<>>]
ListOf(ids) == [kind |-> "list", bb |-> FALSE, items |-> ids]

\* Python truthiness of a result: "if summary:", "if activities_list:"
Truthy(p) == p.kind = "data" \/ (p.kind = "list" /\ Len(p.items) > 0)

\* activity records, kept as their activityId: 0 is a record without an id,
\* -1 a record that is not a mapping (activity.get raises AttributeError)
NoId == 0
NotAMapping == -1
DefaultActivities == <<1, 2>>
ActivityLists ==
    { <<>>, <<1>>, <<1, NoId, 2>>, <<1, NotAMapping>>, <<1, 2, 3, 4, 5, 6, 7>> }

(* --------------------------- exceptions ------------------------------- *)
Chars400 == <<"4", "0", "0">>
Chars404 == <<"4", "0", "4">>
CharsArguments == <<"a", "r", "g", "u", "m", "e", "n", "t", "s">>

\* str(e) of the exceptions the client raises, as character sequences:
\* "400", "404", "40400", "arguments", "timeout"
Messages ==
    { Chars400, Chars404, Chars404 \o <<"0", "0">>, CharsArguments,
      <<"t", "i", "m", "e", "o", "u", "t">> }

\* marker in str(e): substring test
Contains(sub, s) ==
    \E i \in 1..(Len(s) - Len(sub) + 1) : SubSeq(s, i, i + Len(sub) - 1) = sub

Returns(p) == [kind |-> "return", payload |-> p, msg |-> <<>>]
Raises(m) == [kind |-> "raise", payload |-> None, msg |-> m]

(* ------------------------------ state --------------------------------- *)
VARIABLES
    now,            \* ordinal of datetime.now().date()
    rolled,         \* midnight has passed since the program started
    days_back,      \* argument of export_complete_dataset
    clientAttrs,    \* attributes the installed Garmin client class has
    flaky,          \* operations that may fail or return empty in this run
    client,         \* self.client
    api_methods,    \* self.api_methods
    pc,             \* position of the run
    step,           \* position inside the current collector (block / index)
    today,          \* export_user_profile: today
    start_date,     \* collector local
    end_date,       \* collector local
    current,        \* collector local
    day_counter,    \* export_daily_health_metrics: day_counter
    date_str,       \* collector local
    activities_list,\* export_activities local
    last_activity,  \* export_activities local
    frag,           \* the fragment the running collector is building
    all_data,       \* export_complete_dataset: all_data
    result,         \* what export_complete_dataset returned
    filename,       \* export_complete_dataset: filename (its timestamp)
    file,           \* the output file: "absent", "partial", "complete"
    lastCall,       \* the last safe_call: operation, outcome, what it returned
    callCount,      \* per operation: how often the client was called
    retained,       \* per date-strided collector: dates it took for querying
    gotData,        \* <<key, date>> of every per-date call that returned data
    phaseLog,       \* begin/end of every phase of the driver, in order
    authLog,        \* outcome of every login attempt
    discoverCount,  \* how often _discover_api_methods ran
    escaped         \* the exception that left a collector or the write, if any:
                    \* its kind, the operation looked up or called, the position

vars == <<now, rolled, days_back, clientAttrs, flaky, client, api_methods, pc, step,
          today, start_date, end_date, current, day_counter, date_str,
          activities_list, last_activity, frag, all_data, result, filename, file, lastCall,
          callCount, retained, gotData, phaseLog, authLog, discoverCount, escaped>>

envVars == <<days_back, clientAttrs, flaky>>
loopVars == <<start_date, end_date, current, day_counter, date_str>>
actVars == <<activities_list, last_activity>>
callVars == <<lastCall, callCount>>
authVars == <<client, api_methods, authLog, discoverCount>>
outVars == <<result, filename, file>>

(* --------------------------- environment ------------------------------ *)
\* versions of the garminconnect client: which operations the class has
ClientFamily ==
    { AllOps,
      BaseOps,
      BaseOps \cup {"get_heart_rates", "get_sleep_data", "get_rhr_day",
                    "get_weigh_ins", "get_hydration_data", "get_pregnancy_summary"},
      AllOps \ {"get_stats_and_body"},
      BaseOps \ {"get_devices"} }

\* which operations misbehave in one run
FlakyFamily ==
    { {},
      {"get_user_summary"},
      {"get_activities"},
      {"get_activity"},
      {"get_stats_and_body"},
      {"get_heart_rates"},
      {"get_sleep_data"},
      {"get_rhr_day", "get_hydration_data"},
      {"get_training_readiness", "get_weigh_ins"},
      {"get_respiration_data", "get_pregnancy_summary"},
      {"get_menstrual_calendar_data", "get_last_activity"} }

\* the values of days_back tried: none, one day, a few days, a week and more
DaysBackValues == (-1..3) \cup {MaxDaysBack}

\* what an operation may hand back when it returns
Payloads(op, id) ==
    IF op = "get_activities" THEN {None, Empty} \cup {ListOf(l) : l \in ActivityLists}
    ELSE IF op = "get_stats_and_body" THEN {None, Empty, DataBB}
    ELSE IF op = "get_activity" THEN {None, Empty, ListOf(<<id>>)}
    ELSE {None, Empty, Data}

DefaultPayload(op, id) ==
    IF op = "get_activities" THEN ListOf(DefaultActivities)
    ELSE IF op = "get_activity" THEN ListOf(<<id>>)
    ELSE Data

\* everything one call of op can do: return a payload or raise an Exception
Outcomes(op, id) ==
    IF op \in flaky
    THEN {Returns(p) : p \in Payloads(op, id)} \cup {Raises(m) : m \in Messages}
    ELSE {Returns(DefaultPayload(op, id))}

(* ----------------------------- safe_call ------------------------------ *)
\* the chain without its "404" branch
ClassifyWithoutNotFound(msg) ==
    IF Contains(Chars400, msg) THEN "bad_request"
    ELSE IF Contains(CharsArguments, msg) THEN "invalid_parameters"
    ELSE "other"

\* the if/elif chain of safe_call's except branch
Classify(msg) ==
    IF Contains(Chars400, msg) THEN "bad_request"
    ELSE IF Contains(Chars404, msg) THEN "not_found"
    ELSE IF Contains(CharsArguments, msg) THEN "invalid_parameters"
    ELSE "other"

\* safe_call with a bare "raise" left in the last branch of the chain
safe_call_reraises(outcome) ==
    IF outcome.kind = "return"
    THEN [ret |-> outcome.payload, diag |-> "none", raised |-> FALSE]
    ELSE [ret |-> None, diag |-> Classify(outcome.msg),
          raised |-> Classify(outcome.msg) = "other"]

\* safe_call(func, *args): what it returns, what it logs, whether it raises
safe_call(outcome) ==
    IF outcome.kind = "return"
    THEN [ret |-> outcome.payload, diag |-> "none", raised |-> FALSE]
    ELSE [ret |-> None, diag |-> Classify(outcome.msg), raised |-> FALSE]

\* the capability check with the wrong default: api_methods.get(op, True)
\* before discovery, and no check after it
ApiGetDefaultTrue(op) == TRUE

\* self.api_methods.get(op, False)
ApiGet(op) == IF op \in DOMAIN api_methods THEN api_methods[op] ELSE FALSE

\* dict.update with one key
Update(d, k, v) == (k :> v) @@ d

NoCall == [op |-> "none", arg |-> <<>>, outcome |-> Returns(None), ret |-> None,
           diag |-> "none", raised |-> FALSE]

\* bookkeeping of one call of the client through safe_call
Called(op, arg, o, r) ==
    /\ lastCall' = [op |-> op, arg |-> arg, outcome |-> o, ret |-> r.ret,
                    diag |-> r.diag, raised |-> r.raised]
    /\ callCount' = [callCount EXCEPT ![op] = @ + 1]

Begin(p) == <<"begin", p>>
End(p) == <<"end", p>>

EmptyDict == [k \in {} |-> None]

Init ==
    /\ now = StartClock
    /\ rolled = FALSE
    /\ days_back \in DaysBackValues
    /\ clientAttrs \in ClientFamily
    /\ flaky \in {f \in FlakyFamily : f \subseteq clientAttrs}
    /\ client = "None"
    /\ api_methods = [m \in {} |-> FALSE]
    /\ pc = "authenticate"
    /\ step = 0
    /\ today = <<>>
    /\ start_date = 0
    /\ end_date = 0
    /\ current = 0
    /\ day_counter = 0
    /\ date_str = <<>>
    /\ activities_list = None
    /\ last_activity = None
    /\ frag = EmptyDict
    /\ all_data = EmptyDict
    /\ result = "running"
    /\ filename = <<>>
    /\ file = "absent"
    /\ lastCall = NoCall
    /\ callCount = [op \in AllOps |-> 0]
    /\ retained = [daily |-> <<>>, fitness |-> <<>>, specialized |-> <<>>]
    /\ gotData = {}
    /\ phaseLog = <<>>
    /\ authLog = <<>>
    /\ discoverCount = 0
    /\ escaped = [kind |-> "none", op |-> "none", at |-> "none"]

(* ------------------------------ clock --------------------------------- *)
\* the positions whose next step reads datetime.now()
ClockReads == {"profile", "daily", "fitness", "specialized", "synthesize", "write"}

\* Midnight passes while the export runs (a run is far shorter than a day, so
\* at most once).  The program sees the clock only where it reads it, so the
\* rollover is taken as a step just before one of the reads.
Tick ==
    /\ pc \in ClockReads
    /\ ~rolled
    /\ now' = now + 1
    /\ rolled' = TRUE
    /\ UNCHANGED <<envVars, authVars, pc, step, today, loopVars, actVars, frag,
                   all_data, outVars, callVars, retained, gotData, phaseLog, escaped>>

(* ------------------------ export_complete_dataset --------------------- *)
\* the fitness collector called before the daily-health collector
DriverOrderSwapped == <<"profile", "activities", "fitness", "daily", "specialized",
                        "synthesize", "write", "report">>

\* the order in which the try block of export_complete_dataset runs its steps
DriverOrder == <<"profile", "activities", "daily", "fitness", "specialized",
                 "synthesize", "write", "report">>

\* the step that follows step p
After(p) == DriverOrder[(CHOOSE i \in 1..Len(DriverOrder) : DriverOrder[i] = p) + 1]

(* --------------------------- authenticate ----------------------------- *)
\* authenticate(), first try block: Garmin(); login(self.token_store)
AuthStoredLogin ==
    /\ pc = "authenticate"
    /\ \E ok \in BOOLEAN :
        /\ client' = "Garmin()"
        /\ authLog' = Append(authLog, [path |-> "stored", ok |-> ok])
        /\ phaseLog' = IF ok THEN phaseLog \o <<Begin("authenticate"), End("authenticate")>>
                             ELSE Append(phaseLog, Begin("authenticate"))
        /\ pc' = IF ok THEN "discover" ELSE "credentials"
    /\ UNCHANGED <<now, rolled, envVars, api_methods, discoverCount, step, today, loopVars,
                   actVars, frag, all_data, outVars, callVars, retained, gotData, escaped>>

\* authenticate(), except branch: Garmin(email, password); login(); on failure
\* authenticate returns False and export_complete_dataset returns False
\* the failed credential login not reported: discovery runs, True is returned
AfterCredentialLoginIgnored(ok) == "discover"

\* where the run goes after the credential login: on failure authenticate
\* returns False and so does export_complete_dataset
AfterCredentialLogin(ok) == IF ok THEN "discover" ELSE "done"

AuthCredentialLogin ==
    /\ pc = "credentials"
    /\ \E ok \in BOOLEAN :
        /\ client' = "Garmin(email, password)"
        /\ authLog' = Append(authLog, [path |-> "credentials", ok |-> ok])
        /\ phaseLog' = Append(phaseLog, End("authenticate"))
        /\ pc' = AfterCredentialLogin(ok)
        /\ result' = IF AfterCredentialLogin(ok) = "done" THEN "False" ELSE result
    /\ UNCHANGED <<now, rolled, envVars, api_methods, discoverCount, step, today, loopVars,
                   actVars, frag, all_data, filename, file, callVars, retained, gotData,
                   escaped>>

\* what _discover_api_methods stores: hasattr(self.client, method) per method
Discovered == [m \in MethodsToCheck |-> m \in clientAttrs]

\* _discover_api_methods, then authenticate returns True
DiscoverApiMethods ==
    /\ pc = "discover"
    /\ api_methods' = Discovered @@ api_methods
    /\ discoverCount' = discoverCount + 1
    /\ phaseLog' = phaseLog \o <<Begin("prober"), End("prober")>>
    /\ pc' = DriverOrder[1]
    /\ UNCHANGED <<now, rolled, envVars, client, authLog, step, today, loopVars, actVars,
                   frag, all_data, outVars, callVars, retained, gotData, escaped>>

(* ------------------------- exceptions escaping ------------------------ *)
\* the try block ending before the file is written: after the except branch
\* the run goes on to write what it has
EscapeContinues(kind, op) ==
    /\ pc' = "write"
    /\ escaped' = [kind |-> kind, op |-> op, at |-> pc]

\* an exception leaves the running collector: control goes to the except
\* branch of export_complete_dataset
Escape(kind, op) ==
    /\ pc' = "raised"
    /\ escaped' = [kind |-> kind, op |-> op, at |-> pc]

\* export_complete_dataset, except Exception: report, return False
ExportFailed ==
    /\ pc = "raised"
    /\ result' = "False"
    /\ pc' = "done"
    /\ UNCHANGED <<now, rolled, envVars, authVars, step, today, loopVars, actVars, frag,
                   all_data, filename, file, callVars, retained, gotData, phaseLog,
                   escaped>>

(* ------------------------- export_user_profile ------------------------ *)
ProfileBegin ==
    /\ pc = "profile"
    /\ today' = IsoFormat(now)
    /\ frag' = EmptyDict
    /\ step' = 1
    /\ phaseLog' = Append(phaseLog, Begin("profile"))
    /\ pc' = "profile_call"
    /\ UNCHANGED <<now, rolled, envVars, authVars, loopVars, actVars, all_data, outVars,
                   callVars, retained, gotData, escaped>>

\* one entry of the profile dict: safe_call(self.client.<op>, ...)
ProfileCall ==
    /\ pc = "profile_call"
    /\ step <= Len(ProfileOps)
    /\ LET op == ProfileOps[step]
           arg == IF op = "get_user_summary" THEN <<today>> ELSE <<>>
       IN IF op \notin clientAttrs
          THEN /\ Escape("AttributeError", op)
               /\ UNCHANGED <<frag, step, callVars>>
          ELSE \E o \in Outcomes(op, 0) :
                 LET r == safe_call(o)
                 IN /\ Called(op, arg, o, r)
                    /\ IF r.raised
                       THEN Escape("safe_call", op) /\ UNCHANGED <<frag, step>>
                       ELSE /\ frag' = Update(frag, ProfileKeys[step], r.ret)
                            /\ step' = step + 1
                            /\ UNCHANGED <<pc, escaped>>
    /\ UNCHANGED <<now, rolled, envVars, authVars, today, loopVars, actVars, all_data,
                   outVars, retained, gotData, phaseLog>>

\* return {"user_profile": profile}; all_data.update(...)
ProfileReturn ==
    /\ pc = "profile_call"
    /\ step > Len(ProfileOps)
    /\ all_data' = Update(all_data, "user_profile", frag)
    /\ phaseLog' = Append(phaseLog, End("profile"))
    /\ pc' = After("profile")
    /\ UNCHANGED <<now, rolled, envVars, authVars, step, today, loopVars, actVars, frag,
                   outVars, callVars, retained, gotData, escaped>>

(* -------------------------- export_activities ------------------------- *)
\* activities_list = safe_call(self.client.get_activities, 0, limit)
ActivitiesList ==
    /\ pc = "activities"
    /\ phaseLog' = Append(phaseLog, Begin("activities"))
    /\ IF "get_activities" \notin clientAttrs
       THEN /\ Escape("AttributeError", "get_activities")
            /\ UNCHANGED <<activities_list, callVars>>
       ELSE \E o \in Outcomes("get_activities", 0) :
              LET r == safe_call(o)
              IN /\ Called("get_activities", <<>>, o, r)
                 /\ IF r.raised
                    THEN Escape("safe_call", "get_activities") /\ UNCHANGED activities_list
                    ELSE /\ activities_list' = r.ret
                         /\ pc' = "activities_last"
                         /\ UNCHANGED escaped
    /\ UNCHANGED <<now, rolled, envVars, authVars, step, today, loopVars, last_activity,
                   frag, all_data, outVars, retained, gotData>>

\* last_activity = safe_call(self.client.get_last_activity); detailed_activities = []
ActivitiesLast ==
    /\ pc = "activities_last"
    /\ IF "get_last_activity" \notin clientAttrs
       THEN /\ Escape("AttributeError", "get_last_activity")
            /\ UNCHANGED <<last_activity, frag, step, callVars>>
       ELSE \E o \in Outcomes("get_last_activity", 0) :
              LET r == safe_call(o)
              IN /\ Called("get_last_activity", <<>>, o, r)
                 /\ IF r.raised
                    THEN Escape("safe_call", "get_last_activity")
                         /\ UNCHANGED <<last_activity, frag, step>>
                    ELSE /\ last_activity' = r.ret
                         /\ frag' = [detailed_activities |-> <<>>]
                         /\ step' = 1
                         /\ pc' = "activities_detail"
                         /\ UNCHANGED escaped
    /\ UNCHANGED <<now, rolled, envVars, authVars, today, loopVars, activities_list,
                   all_data, outVars, retained, gotData, phaseLog>>

Min(a, b) == IF a <= b THEN a ELSE b

\* the list walked whole, without the slice
FirstFiveUnsliced(lst) == lst

\* activities_list[:5]
FirstFive(lst) == SubSeq(lst, 1, Min(DetailLimit, Len(lst)))

\* the records the detail loop walks: none when activities_list is falsy
DetailCandidates == IF Truthy(activities_list) THEN FirstFive(activities_list.items) ELSE <<>>

\* one iteration of "for i, activity in enumerate(activities_list[:5])"
ActivityDetail ==
    /\ pc = "activities_detail"
    /\ step <= Len(DetailCandidates)
    /\ LET activity == DetailCandidates[step]
       IN IF activity = NotAMapping
          THEN /\ Escape("AttributeError", "none")
               /\ UNCHANGED <<frag, step, callVars>>
          ELSE IF activity = NoId
          THEN /\ step' = step + 1
               /\ UNCHANGED <<frag, callVars, pc, escaped>>
          ELSE IF "get_activity" \notin clientAttrs
          THEN /\ Escape("AttributeError", "get_activity")
               /\ UNCHANGED <<frag, step, callVars>>
          ELSE \E o \in Outcomes("get_activity", activity) :
                 LET r == safe_call(o)
                 IN /\ Called("get_activity", <<activity>>, o, r)
                    /\ IF r.raised
                       THEN Escape("safe_call", "get_activity") /\ UNCHANGED <<frag, step>>
                       ELSE /\ frag' = IF Truthy(r.ret)
                                       THEN [frag EXCEPT !.detailed_activities = Append(@, r.ret)]
                                       ELSE frag
                            /\ step' = step + 1
                            /\ UNCHANGED <<pc, escaped>>
    /\ UNCHANGED <<now, rolled, envVars, authVars, today, loopVars, actVars, all_data,
                   outVars, retained, gotData, phaseLog>>

\* the fragment export_activities returns
ActivitiesFragment(limit, lst, last, detailed) ==
    [metadata |-> [total_requested |-> limit,
                   actual_count |-> IF Truthy(lst) THEN Len(lst.items) ELSE 0,
                   detailed_sample |-> Len(detailed)],
     all_activities |-> lst,
     last_activity |-> last,
     detailed_sample |-> detailed]

\* return {"activities": ...}; all_data.update(...)
ActivitiesReturn ==
    /\ pc = "activities_detail"
    /\ step > Len(DetailCandidates)
    /\ all_data' = Update(all_data, "activities",
                          ActivitiesFragment(FullExportLimit, activities_list,
                                             last_activity, frag.detailed_activities))
    /\ phaseLog' = Append(phaseLog, End("activities"))
    /\ pc' = After("activities")
    /\ UNCHANGED <<now, rolled, envVars, authVars, step, today, loopVars, actVars, frag,
                   outVars, callVars, retained, gotData, escaped>>

(* --------------------- the date-strided collectors -------------------- *)
Metadata(s, e, strategy) ==
    [period_start |-> IsoFormat(s), period_end |-> IsoFormat(e),
     sampling_strategy |-> strategy]

\* {"date": date_str, "data": payload}
SamplePoint(d, p) == [date |-> d, data |-> p]

\* the append without its "if p:" guard
AfterCallAlways(f, b, d, p) == [f EXCEPT ![b.key] = Append(@, SamplePoint(d, p))]

\* what a per-date block does to the fragment once safe_call returned p:
\* "if p: sequence.append(...)"; the summary is also scanned for bodyBattery
AfterCall(f, b, d, p) ==
    IF ~Truthy(p) THEN f
    ELSE LET g == [f EXCEPT ![b.key] = Append(@, SamplePoint(d, p))]
         IN IF b.op = "get_stats_and_body" /\ p.bb
            THEN [g EXCEPT !["body_battery_indicators"] =
                               Append(@, [date |-> d, found_in_summary |-> TRUE])]
            ELSE g

\* one per-date block of a collector: the capability check, the call through
\* safe_call with the date string, the append
DateBlock(b, d) ==
    IF b.gated /\ ~ApiGet(b.op)
    THEN /\ step' = step + 1
         /\ UNCHANGED <<frag, callVars, gotData, pc, escaped>>
    ELSE IF b.op \notin clientAttrs
    THEN /\ Escape("AttributeError", b.op)
         /\ UNCHANGED <<frag, step, callVars, gotData>>
    ELSE \E o \in Outcomes(b.op, 0) :
           LET r == safe_call(o)
           IN /\ Called(b.op, <<d>>, o, r)
              /\ IF r.raised
                 THEN Escape("safe_call", b.op) /\ UNCHANGED <<frag, step, gotData>>
                 ELSE /\ frag' = AfterCall(frag, b, d, r.ret)
                      /\ gotData' = IF Truthy(o.payload) /\ o.kind = "return"
                                    THEN gotData \cup {<<b.key, d>>}
                                    ELSE gotData
                      /\ step' = step + 1
                      /\ UNCHANGED <<pc, escaped>>

(* --------------------- export_daily_health_metrics -------------------- *)
DailyBegin ==
    /\ pc = "daily"
    /\ end_date' = now
    /\ start_date' = now - days_back
    /\ frag' = [metadata |-> Metadata(now - days_back, now, "every_2nd_day"),
                daily_summaries |-> <<>>, heart_rate_data |-> <<>>, sleep_data |-> <<>>,
                stress_data |-> <<>>, steps_data |-> <<>>,
                body_battery_indicators |-> <<>>]
    /\ current' = now - days_back
    /\ day_counter' = 0
    /\ step' = 0
    /\ phaseLog' = Append(phaseLog, Begin("daily"))
    /\ pc' = "daily_loop"
    /\ UNCHANGED <<now, rolled, envVars, authVars, today, date_str, actVars, all_data,
                   outVars, callVars, retained, gotData, escaped>>

\* the loop condition off by one: one step past end_date
InRangeOvershoots(c, e) == c <= e + 1

\* the loop condition of the three date loops: while current <= end_date
InRange(c, e) == c <= e

\* the parity test off by one: the odd days are taken
DailyRetainsOdd(n) == n % DailyStride = 1

\* "if day_counter % 2 == 0": the date is taken; date_str = current.isoformat()
DailyRetains(n) == n % DailyStride = 0

DailyTake ==
    /\ pc = "daily_loop"
    /\ InRange(current, end_date)
    /\ step = 0
    /\ DailyRetains(day_counter)
    /\ date_str' = IsoFormat(current)
    /\ retained' = [retained EXCEPT !.daily = Append(@, current)]
    /\ step' = 1
    /\ UNCHANGED <<now, rolled, envVars, authVars, pc, today, start_date, end_date, current,
                   day_counter, actVars, frag, all_data, outVars, callVars, gotData,
                   phaseLog, escaped>>

DailyBlock ==
    /\ pc = "daily_loop"
    /\ step >= 1
    /\ step <= Len(DailyBlocks)
    /\ DateBlock(DailyBlocks[step], date_str)
    /\ UNCHANGED <<now, rolled, envVars, authVars, today, loopVars, actVars, all_data,
                   outVars, retained, phaseLog>>

\* current += timedelta(days=1); day_counter += 1
DailyAdvance ==
    /\ pc = "daily_loop"
    /\ InRange(current, end_date)
    /\ step > Len(DailyBlocks) \/ (step = 0 /\ ~DailyRetains(day_counter))
    /\ current' = current + 1
    /\ day_counter' = day_counter + 1
    /\ step' = 0
    /\ UNCHANGED <<now, rolled, envVars, authVars, pc, today, start_date, end_date, date_str,
                   actVars, frag, all_data, outVars, callVars, retained, gotData,
                   phaseLog, escaped>>

DailyReturn ==
    /\ pc = "daily_loop"
    /\ ~InRange(current, end_date)
    /\ all_data' = Update(all_data, "daily_health_metrics", frag)
    /\ phaseLog' = Append(phaseLog, End("daily"))
    /\ pc' = After("daily")
    /\ UNCHANGED <<now, rolled, envVars, authVars, step, today, loopVars, actVars, frag,
                   outVars, callVars, retained, gotData, escaped>>

(* ----------------------- export_fitness_metrics ------------------------ *)
FitnessBegin ==
    /\ pc = "fitness"
    /\ end_date' = now
    /\ start_date' = now - days_back
    /\ frag' = [metadata |-> Metadata(now - days_back, now, "weekly"),
                training_readiness |-> <<>>, training_status |-> <<>>,
                resting_heart_rate |-> <<>>, body_composition |-> <<>>,
                weight_measurements |-> None]
    /\ current' = now - days_back
    /\ step' = 0
    /\ phaseLog' = Append(phaseLog, Begin("fitness"))
    /\ pc' = "fitness_loop"
    /\ UNCHANGED <<now, rolled, envVars, authVars, today, day_counter, date_str, actVars,
                   all_data, outVars, callVars, retained, gotData, escaped>>

\* loop head: date_str = current.isoformat()
FitnessTake ==
    /\ pc = "fitness_loop"
    /\ InRange(current, end_date)
    /\ step = 0
    /\ date_str' = IsoFormat(current)
    /\ retained' = [retained EXCEPT !.fitness = Append(@, current)]
    /\ step' = 1
    /\ UNCHANGED <<now, rolled, envVars, authVars, pc, today, start_date, end_date, current,
                   day_counter, actVars, frag, all_data, outVars, callVars, gotData,
                   phaseLog, escaped>>

FitnessBlock ==
    /\ pc = "fitness_loop"
    /\ step >= 1
    /\ step <= Len(FitnessBlocks)
    /\ DateBlock(FitnessBlocks[step], date_str)
    /\ UNCHANGED <<now, rolled, envVars, authVars, today, loopVars, actVars, all_data,
                   outVars, retained, phaseLog>>

\* current += timedelta(days=7)
FitnessAdvance ==
    /\ pc = "fitness_loop"
    /\ InRange(current, end_date)
    /\ step > Len(FitnessBlocks)
    /\ current' = current + WeeklyStride
    /\ step' = 0
    /\ UNCHANGED <<now, rolled, envVars, authVars, pc, today, start_date, end_date,
                   day_counter, date_str, actVars, frag, all_data, outVars, callVars,
                   retained, gotData, phaseLog, escaped>>

\* the weight block after the loop: one ranged call inside try/except: pass
FitnessWeighIns ==
    /\ pc = "fitness_loop"
    /\ ~InRange(current, end_date)
    /\ pc' = "fitness_return"
    /\ IF ~ApiGet("get_weigh_ins") \/ "get_weigh_ins" \notin clientAttrs
       THEN UNCHANGED <<frag, callVars>>
       ELSE \E o \in Outcomes("get_weigh_ins", 0) :
              LET r == safe_call(o)
              IN /\ Called("get_weigh_ins",
                           <<IsoFormat(start_date), IsoFormat(end_date)>>, o, r)
                 /\ frag' = IF r.raised THEN frag
                            ELSE [frag EXCEPT !.weight_measurements = r.ret]
    /\ UNCHANGED <<now, rolled, envVars, authVars, step, today, loopVars, actVars, all_data,
                   outVars, retained, gotData, phaseLog, escaped>>

FitnessReturn ==
    /\ pc = "fitness_return"
    /\ all_data' = Update(all_data, "fitness_metrics", frag)
    /\ phaseLog' = Append(phaseLog, End("fitness"))
    /\ pc' = After("fitness")
    /\ UNCHANGED <<now, rolled, envVars, authVars, step, today, loopVars, actVars, frag,
                   outVars, callVars, retained, gotData, escaped>>

(* ---------------------- export_specialized_health --------------------- *)
SpecializedBegin ==
    /\ pc = "specialized"
    /\ end_date' = now
    /\ start_date' = now - days_back
    /\ frag' = [metadata |-> Metadata(now - days_back, now, "weekly"),
                respiration_data |-> <<>>, pulse_ox_data |-> <<>>,
                hydration_data |-> <<>>, womens_health |-> EmptyDict]
    /\ current' = now - days_back
    /\ step' = 0
    /\ phaseLog' = Append(phaseLog, Begin("specialized"))
    /\ pc' = "specialized_loop"
    /\ UNCHANGED <<now, rolled, envVars, authVars, today, day_counter, date_str, actVars,
                   all_data, outVars, callVars, retained, gotData, escaped>>

SpecializedTake ==
    /\ pc = "specialized_loop"
    /\ InRange(current, end_date)
    /\ step = 0
    /\ date_str' = IsoFormat(current)
    /\ retained' = [retained EXCEPT !.specialized = Append(@, current)]
    /\ step' = 1
    /\ UNCHANGED <<now, rolled, envVars, authVars, pc, today, start_date, end_date, current,
                   day_counter, actVars, frag, all_data, outVars, callVars, gotData,
                   phaseLog, escaped>>

SpecializedBlock ==
    /\ pc = "specialized_loop"
    /\ step >= 1
    /\ step <= Len(SpecializedBlocks)
    /\ DateBlock(SpecializedBlocks[step], date_str)
    /\ UNCHANGED <<now, rolled, envVars, authVars, today, loopVars, actVars, all_data,
                   outVars, retained, phaseLog>>

SpecializedAdvance ==
    /\ pc = "specialized_loop"
    /\ InRange(current, end_date)
    /\ step > Len(SpecializedBlocks)
    /\ current' = current + WeeklyStride
    /\ step' = 0
    /\ UNCHANGED <<now, rolled, envVars, authVars, pc, today, start_date, end_date,
                   day_counter, date_str, actVars, frag, all_data, outVars, callVars,
                   retained, gotData, phaseLog, escaped>>

\* the loop is over: on to the whole-period blocks
SpecializedLoopEnd ==
    /\ pc = "specialized_loop"
    /\ ~InRange(current, end_date)
    /\ step' = 1
    /\ pc' = "womens_health"
    /\ UNCHANGED <<now, rolled, envVars, authVars, today, loopVars, actVars, frag, all_data,
                   outVars, callVars, retained, gotData, phaseLog, escaped>>

\* menstrual calendar (start, end) and pregnancy summary (no argument):
\* the result is stored whatever it is
WomensBlock ==
    /\ pc = "womens_health"
    /\ step <= Len(WomensBlocks)
    /\ LET b == WomensBlocks[step]
           arg == IF b.key = "menstrual"
                  THEN <<IsoFormat(start_date), IsoFormat(end_date)>> ELSE <<>>
       IN IF ~ApiGet(b.op)
          THEN /\ step' = step + 1
               /\ UNCHANGED <<frag, callVars, pc, escaped>>
          ELSE IF b.op \notin clientAttrs
          THEN /\ Escape("AttributeError", b.op)
               /\ UNCHANGED <<frag, step, callVars>>
          ELSE \E o \in Outcomes(b.op, 0) :
                 LET r == safe_call(o)
                 IN /\ Called(b.op, arg, o, r)
                    /\ IF r.raised
                       THEN Escape("safe_call", b.op) /\ UNCHANGED <<frag, step>>
                       ELSE /\ frag' = [frag EXCEPT !.womens_health = Update(@, b.key, r.ret)]
                            /\ step' = step + 1
                            /\ UNCHANGED <<pc, escaped>>
    /\ UNCHANGED <<now, rolled, envVars, authVars, today, loopVars, actVars, all_data,
                   outVars, retained, gotData, phaseLog>>

SpecializedReturn ==
    /\ pc = "womens_health"
    /\ step > Len(WomensBlocks)
    /\ all_data' = Update(all_data, "specialized_health", frag)
    /\ phaseLog' = Append(phaseLog, End("specialized"))
    /\ pc' = After("specialized")
    /\ UNCHANGED <<now, rolled, envVars, authVars, step, today, loopVars, actVars, frag,
                   outVars, callVars, retained, gotData, escaped>>

(* --------------------- create_llm_analysis_context -------------------- *)
AnalysisInstructions ==
    [primary_focus |->
        <<"Identify patterns in activity and health data",
          "Analyze correlations between sleep, stress, and performance",
          "Assess training load and recovery patterns",
          "Provide actionable health and fitness insights">>,
     data_format_notes |->
        <<"All dates in YYYY-MM-DD ISO format",
          "Some metrics sampled (every 2nd/7th day) to optimize file size",
          "Missing data points are normal - not all metrics available daily",
          "Look for trends rather than absolute values">>,
     recommended_approach |->
        <<"Start with data_overview to understand available metrics",
          "Focus on activities and daily_health_metrics for main insights",
          "Cross-reference sleep and stress with activity performance",
          "Provide specific, actionable recommendations">>]

\* d.get(k) is truthy, for a sequence-valued key
HasEntries(d, k) == k \in DOMAIN d /\ Len(d[k]) > 0

If(c, s) == IF c THEN s ELSE <<>>

\* the synthesizer with the export date also written into data_overview
create_llm_analysis_context_dated(d, ts) ==
    LET acts == "activities" \in DOMAIN d /\ Truthy(d["activities"].all_activities)
        health == "daily_health_metrics" \in DOMAIN d
        fitness == "fitness_metrics" \in DOMAIN d
        hr == health /\ HasEntries(d["daily_health_metrics"], "heart_rate_data")
        sleep == health /\ HasEntries(d["daily_health_metrics"], "sleep_data")
        stress == health /\ HasEntries(d["daily_health_metrics"], "stress_data")
        ready == fitness /\ HasEntries(d["fitness_metrics"], "training_readiness")
        rhr == fitness /\ HasEntries(d["fitness_metrics"], "resting_heart_rate")
    IN [export_timestamp |-> ts,
        data_overview |->
            IF acts
            THEN [k \in {"activities", "exported"} |->
                    IF k = "exported" THEN ts
                    ELSE <<Len(d["activities"].all_activities.items), "activities recorded">>]
            ELSE [k \in {"exported"} |-> ts],
        available_metrics |->
            If(acts, <<"activity_patterns">>) \o If(hr, <<"heart_rate_data">>)
            \o If(sleep, <<"sleep_patterns">>) \o If(stress, <<"stress_levels">>),
        suggested_analyses |->
            If(acts, <<"activity_trends_and_performance_analysis">>)
            \o If(hr, <<"heart_rate_zone_analysis">>)
            \o If(sleep, <<"sleep_quality_and_recovery_assessment">>)
            \o If(stress, <<"stress_impact_on_performance">>)
            \o If(ready, <<"training_readiness_optimization">>)
            \o If(rhr, <<"cardiovascular_fitness_trends">>),
        data_quality_notes |-> <<>>,
        analysis_instructions |-> AnalysisInstructions]

\* create_llm_analysis_context(all_data), with datetime.now() passed as ts
create_llm_analysis_context(d, ts) ==
    LET acts == "activities" \in DOMAIN d /\ Truthy(d["activities"].all_activities)
        health == "daily_health_metrics" \in DOMAIN d
        fitness == "fitness_metrics" \in DOMAIN d
        hr == health /\ HasEntries(d["daily_health_metrics"], "heart_rate_data")
        sleep == health /\ HasEntries(d["daily_health_metrics"], "sleep_data")
        stress == health /\ HasEntries(d["daily_health_metrics"], "stress_data")
        ready == fitness /\ HasEntries(d["fitness_metrics"], "training_readiness")
        rhr == fitness /\ HasEntries(d["fitness_metrics"], "resting_heart_rate")
    IN [export_timestamp |-> ts,
        data_overview |->
            IF acts
            THEN [k \in {"activities"} |->
                    <<Len(d["activities"].all_activities.items), "activities recorded">>]
            ELSE [k \in {} |-> <<>>],
        available_metrics |->
            If(acts, <<"activity_patterns">>) \o If(hr, <<"heart_rate_data">>)
            \o If(sleep, <<"sleep_patterns">>) \o If(stress, <<"stress_levels">>),
        suggested_analyses |->
            If(acts, <<"activity_trends_and_performance_analysis">>)
            \o If(hr, <<"heart_rate_zone_analysis">>)
            \o If(sleep, <<"sleep_quality_and_recovery_assessment">>)
            \o If(stress, <<"stress_impact_on_performance">>)
            \o If(ready, <<"training_readiness_optimization">>)
            \o If(rhr, <<"cardiovascular_fitness_trends">>),
        data_quality_notes |-> <<>>,
        analysis_instructions |-> AnalysisInstructions]

\* all_data.update(self.create_llm_analysis_context(all_data))
Synthesize ==
    /\ pc = "synthesize"
    /\ all_data' = Update(all_data, "llm_analysis_context",
                          create_llm_analysis_context(all_data, IsoFormat(now)))
    /\ phaseLog' = phaseLog \o <<Begin("synthesize"), End("synthesize")>>
    /\ pc' = After("synthesize")
    /\ UNCHANGED <<now, rolled, envVars, authVars, step, today, loopVars, actVars, frag,
                   outVars, callVars, retained, gotData, escaped>>

(* ------------------------- write and report --------------------------- *)
\* filename from the timestamp; open(filename, 'w'); json.dump(all_data, f)
WriteFile ==
    /\ pc = "write"
    /\ filename' = IsoFormat(now)
    /\ \E io \in {"ok", "dump fails"} :
        /\ file' = IF io = "ok" THEN "complete" ELSE "partial"
        /\ phaseLog' = IF io = "ok" THEN phaseLog \o <<Begin("write"), End("write")>>
                       ELSE Append(phaseLog, Begin("write"))
        /\ IF io = "ok" THEN pc' = After("write") /\ UNCHANGED escaped
                        ELSE Escape("OSError", "none")
    /\ UNCHANGED <<now, rolled, envVars, authVars, step, today, loopVars, actVars, frag,
                   all_data, result, callVars, retained, gotData>>

\* sum(1 for k, v in all_data.items() if v)
SectionsWithData(d) == Cardinality({k \in DOMAIN d : DOMAIN d[k] # {}})

\* file statistics, the printed report, return filename
ReportStatistics ==
    /\ pc = "report"
    /\ result' = "filename"
    /\ phaseLog' = phaseLog \o <<Begin("report"), End("report")>>
    /\ pc' = "done"
    /\ UNCHANGED <<now, rolled, envVars, authVars, step, today, loopVars, actVars, frag,
                   all_data, filename, file, callVars, retained, gotData, escaped>>

Next ==
    \/ Tick
    \/ AuthStoredLogin
    \/ AuthCredentialLogin
    \/ DiscoverApiMethods
    \/ ExportFailed
    \/ ProfileBegin
    \/ ProfileCall
    \/ ProfileReturn
    \/ ActivitiesList
    \/ ActivitiesLast
    \/ ActivityDetail
    \/ ActivitiesReturn
    \/ DailyBegin
    \/ DailyTake
    \/ DailyBlock
    \/ DailyAdvance
    \/ DailyReturn
    \/ FitnessBegin
    \/ FitnessTake
    \/ FitnessBlock
    \/ FitnessAdvance
    \/ FitnessWeighIns
    \/ FitnessReturn
    \/ SpecializedBegin
    \/ SpecializedTake
    \/ SpecializedBlock
    \/ SpecializedAdvance
    \/ SpecializedLoopEnd
    \/ WomensBlock
    \/ SpecializedReturn
    \/ Synthesize
    \/ WriteFile
    \/ ReportStatistics

Spec == Init /\ [][Next]_vars

(* ============================== claims =============================== *)
\* the client was asked for op, or the lookup of op on the client failed
Attempted(op) == callCount[op] > 0 \/ escaped.op = op

\* the Capability Set marks op available
Available(op) == op \in DOMAIN api_methods /\ api_methods[op]

\* the phase a position belongs to
PhaseOfPc(p) ==
    CASE p = "profile_call" -> "profile"
      [] p \in {"activities", "activities_last", "activities_detail"} -> "activities"
      [] p = "daily_loop" -> "daily"
      [] p \in {"fitness_loop", "fitness_return"} -> "fitness"
      [] p \in {"specialized_loop", "womens_health"} -> "specialized"
      [] OTHER -> p

CollectorPcs == {"profile_call", "activities", "activities_last", "activities_detail",
                 "daily_loop", "fitness_loop", "fitness_return", "specialized_loop",
                 "womens_health", "synthesize"}

\* C1: safe_call never propagates a fault: a returned value comes back
\* unchanged, a raised fault comes back as None, and after every call the
\* collector goes on (the run is neither in the except branch nor over).
C1_SafeCallContainsFaults ==
    /\ [](/\ ~lastCall.raised
          /\ escaped.kind # "safe_call"
          /\ lastCall.outcome.kind = "return" => lastCall.ret = lastCall.outcome.payload
          /\ lastCall.outcome.kind = "raise" => lastCall.ret = None)
    /\ [][callCount' # callCount => pc' \notin {"raised", "done"} /\ escaped' = escaped]_vars

\* an operation raised as the last call of the run and the file was still written
C1_Witness ==
    /\ lastCall.outcome.kind = "raise"
    /\ lastCall.ret = None
    /\ result = "filename"

\* C2: an optional operation the Capability Set marks unavailable is never
\* attempted by any collector: neither called nor looked up on the client.
C2_UnavailableNeverAttempted ==
    \A m \in DOMAIN api_methods : ~api_methods[m] => ~Attempted(m)

\* a complete run in which heart rates were unavailable and the daily
\* collector made its other calls
C2_Witness ==
    /\ result = "filename"
    /\ "get_heart_rates" \in DOMAIN api_methods
    /\ ~api_methods["get_heart_rates"]
    /\ callCount["get_stats_and_body"] >= 2
    /\ callCount["get_heart_rates"] = 0

\* C3 as stated: every call is for an operation marked available or is a base
\* call of the profile or activities collector (so the daily summary call,
\* too, would need to be marked available).
C3_Original ==
    \A op \in AllOps :
        callCount[op] > 0 =>
            Available(op) \/ op \in SeqRange(ProfileOps) \cup ActivityOps

\* C3 amended: every attempted call is for an operation marked available, or a
\* base call of the profile or activities collector, or the daily summary
\* call get_stats_and_body, which is made without consulting the Capability Set.
C3_CallsAvailableOrBase ==
    \A op \in AllOps :
        Attempted(op) =>
            \/ Available(op)
            \/ op \in SeqRange(ProfileOps) \cup ActivityOps
            \/ op = "get_stats_and_body"

\* the summary was fetched though the Capability Set has no entry for it,
\* while optional operations were unavailable and skipped
C3_Witness ==
    /\ discoverCount = 1
    /\ callCount["get_stats_and_body"] > 0
    /\ "get_stats_and_body" \notin DOMAIN api_methods
    /\ ~api_methods["get_sleep_data"]
    /\ pc = "done"

BothLoginsFailed == Len(authLog) = 2 /\ ~authLog[1].ok /\ ~authLog[2].ok

\* C4: when the stored-token login and the credential login both fail, the
\* export returns False, the prober never ran, no collector ran or called the
\* client, and no file exists.
C4_AuthFailureAborts ==
    BothLoginsFailed =>
        /\ pc = "done"
        /\ result = "False"
        /\ discoverCount = 0
        /\ DOMAIN api_methods = {}
        /\ phaseLog = <<Begin("authenticate"), End("authenticate")>>
        /\ \A op \in AllOps : callCount[op] = 0
        /\ DOMAIN all_data = {}
        /\ file = "absent"

C4_Witness == BothLoginsFailed /\ pc = "done"

\* C5: once an exception has left a collector, no later phase begins, no
\* further call is made, the document stays as it was, no file is opened, and
\* the export ends returning False.
C5_EscapedFaultAborts ==
    /\ [](escaped.at \in CollectorPcs =>
            /\ pc \in {"raised", "done"}
            /\ pc = "done" => result = "False"
            /\ file = "absent"
            /\ filename = <<>>
            /\ phaseLog[Len(phaseLog)] = Begin(PhaseOfPc(escaped.at)))
    /\ [][escaped.at \in CollectorPcs =>
            /\ callCount' = callCount
            /\ all_data' = all_data
            /\ file' = file
            /\ phaseLog' = phaseLog]_vars

\* the daily collector failed with two fragments already merged, and the
\* export returned False
C5_Witness ==
    /\ escaped.at = "daily_loop"
    /\ DOMAIN all_data = {"user_profile", "activities"}
    /\ pc = "done"
    /\ result = "False"

(* ------------------- claims about the date collectors ----------------- *)
DateCollectors == {"daily", "fitness", "specialized"}

Section(c) ==
    CASE c = "daily" -> "daily_health_metrics"
      [] c = "fitness" -> "fitness_metrics"
      [] c = "specialized" -> "specialized_health"

\* the sequences of Sample Points a collector fills, one per per-date call
SeqKeys(c) ==
    CASE c = "daily" -> {"daily_summaries", "heart_rate_data", "sleep_data",
                         "stress_data", "steps_data"}
      [] c = "fitness" -> {"training_readiness", "training_status",
                           "resting_heart_rate", "body_composition"}
      [] c = "specialized" -> {"respiration_data", "pulse_ox_data", "hydration_data"}

\* every dated sequence of a collector's fragment
DatedKeys(c) == IF c = "daily" THEN SeqKeys(c) \cup {"body_battery_indicators"}
                ELSE SeqKeys(c)

Begun(c) == \E i \in 1..Len(phaseLog) : phaseLog[i] = Begin(c)

\* the fragment of a collector that has begun: merged, or still being built
Fragment(c) == IF Section(c) \in DOMAIN all_data THEN all_data[Section(c)] ELSE frag

Dates(sq) == [i \in 1..Len(sq) |-> sq[i].date]

IsoSeq(r) == [i \in 1..Len(r) |-> IsoFormat(r[i])]

\* the day a collector can have read as today
Todays == StartClock..now

\* C6: for each date-strided collector (daily health every 2nd day, fitness
\* and specialized health every 7th), the first date retained for querying is
\* the range start, today - days_back, and consecutive retained dates differ
\* by exactly the stride.
C6_StrideFromStart ==
    \A c \in DateCollectors :
        LET r == retained[c]
            k == IF c = "daily" THEN 2 ELSE 7
        IN /\ Len(r) > 0 =>
                /\ Begun(c)
                /\ IsoFormat(r[1]) = Fragment(c).metadata.period_start
                /\ \E t \in Todays :
                      /\ r[1] = t - days_back
                      /\ Fragment(c).metadata.period_end = IsoFormat(t)
           /\ \A i \in 1..(Len(r) - 1) : r[i + 1] - r[i] = k

\* a finished run over a week: four daily dates, two weekly dates
C6_Witness ==
    /\ pc = "done"
    /\ Len(retained.daily) >= 4
    /\ Len(retained.fitness) = 2
    /\ Len(retained.specialized) = 2

\* a dated sequence holds one entry per retained date whose call returned a
\* non-empty result, in date order, and every entry carries a non-empty result
SequencesExact ==
    /\ \A c \in DateCollectors : \A key \in SeqKeys(c) :
          Begun(c) =>
              LET sq == Fragment(c)[key]
                  HasData(d) == <<key, d>> \in gotData
              IN /\ Dates(sq) = SelectSeq(IsoSeq(retained[c]), HasData)
                 /\ \A i \in 1..Len(sq) : Truthy(sq[i].data)
    /\ Begun("daily") =>
          LET f == Fragment("daily")
              Mentions(e) == e.data.bb
          IN Dates(f.body_battery_indicators) =
                 Dates(SelectSeq(f.daily_summaries, Mentions))
    /\ "activities" \in DOMAIN all_data =>
          \A i \in 1..Len(all_data["activities"].detailed_sample) :
              Truthy(all_data["activities"].detailed_sample[i])

\* no stored result of a call is None or empty
NoPlaceholders ==
    /\ "user_profile" \in DOMAIN all_data =>
          \A k \in DOMAIN all_data["user_profile"] : Truthy(all_data["user_profile"][k])
    /\ "activities" \in DOMAIN all_data =>
          /\ Truthy(all_data["activities"].all_activities)
          /\ Truthy(all_data["activities"].last_activity)
    /\ "fitness_metrics" \in DOMAIN all_data /\ callCount["get_weigh_ins"] > 0 =>
          Truthy(all_data["fitness_metrics"].weight_measurements)
    /\ "specialized_health" \in DOMAIN all_data =>
          \A k \in DOMAIN all_data["specialized_health"].womens_health :
              Truthy(all_data["specialized_health"].womens_health[k])

\* C7 as stated: no value in any fragment is a null or empty placeholder for
\* a failed or empty call, and the dated sequences hold exactly the non-empty
\* results.
C7_Original == NoPlaceholders /\ SequencesExact

\* the single-valued entries hold whatever safe_call returned
StoredAsReturned ==
    /\ lastCall.op \in SeqRange(ProfileOps) =>
          LET k == ProfileKeys[CHOOSE i \in 1..Len(ProfileOps) : ProfileOps[i] = lastCall.op]
              f == IF "user_profile" \in DOMAIN all_data THEN all_data["user_profile"]
                   ELSE frag
          IN f[k] = lastCall.ret
    /\ lastCall.op = "get_weigh_ins" => Fragment("fitness").weight_measurements = lastCall.ret
    /\ lastCall.op = "get_menstrual_calendar_data" =>
          Fragment("specialized").womens_health["menstrual"] = lastCall.ret
    /\ lastCall.op = "get_pregnancy_summary" =>
          Fragment("specialized").womens_health["pregnancy"] = lastCall.ret

\* C7 amended: the per-date calls omit empty and null results (a dated
\* sequence holds exactly one entry per retained date whose call returned a
\* non-empty result, in date order; detailed_sample holds only non-empty
\* records), while the single-valued entries (profile fields, weight
\* measurements, menstrual and pregnancy data) store the result as returned,
\* None included.
C7_SequencesOmitEmptyResults == SequencesExact /\ StoredAsReturned

\* a finished run with four retained daily dates of which two had a summary
C7_Witness ==
    /\ result = "filename"
    /\ Len(retained.daily) = 4
    /\ Len(all_data["daily_health_metrics"].daily_summaries) = 2
    /\ all_data["daily_health_metrics"].daily_summaries[1].date = IsoFormat(retained.daily[1])
    /\ all_data["daily_health_metrics"].daily_summaries[2].date = IsoFormat(retained.daily[3])

(* ------------------------ claims about safe_call ---------------------- *)
\* C8 as stated: a fault whose message contains "404" is classified
\* not-found and comes back as None.
C8_Original ==
    lastCall.outcome.kind = "raise" /\ Contains(Chars404, lastCall.outcome.msg) =>
        /\ lastCall.ret = None
        /\ ~lastCall.raised
        /\ lastCall.diag = "not_found"

\* C8 amended: a fault whose message contains "404" and not "400" is
\* classified not-found; every fault comes back as None without an exception
\* and gets exactly one class, by the first marker found in the order "400"
\* (bad-request), "404" (not-found), "arguments" (invalid-parameters), else
\* other.
C8_ClassifiedByFirstMarker ==
    lastCall.outcome.kind = "raise" =>
        LET m == lastCall.outcome.msg
            has400 == Contains(<<"4", "0", "0">>, m)
            has404 == Contains(<<"4", "0", "4">>, m)
            hasArgs == Contains(<<"a", "r", "g", "u", "m", "e", "n", "t", "s">>, m)
        IN /\ lastCall.ret = None
           /\ ~lastCall.raised
           /\ escaped.kind # "safe_call"
           /\ has400 => lastCall.diag = "bad_request"
           /\ has404 /\ ~has400 => lastCall.diag = "not_found"
           /\ hasArgs /\ ~has400 /\ ~has404 => lastCall.diag = "invalid_parameters"
           /\ ~has400 /\ ~has404 /\ ~hasArgs => lastCall.diag = "other"

\* a daily call raised "404", was logged as not found, and the loop went on
C8_Witness ==
    /\ lastCall.outcome.kind = "raise"
    /\ lastCall.outcome.msg = <<"4", "0", "4">>
    /\ lastCall.diag = "not_found"
    /\ lastCall.ret = None
    /\ pc = "daily_loop"

(* ------------------------ claims about the driver --------------------- *)
PhaseOrder == <<"authenticate", "prober", "profile", "activities", "daily", "fitness",
                "specialized", "synthesize", "write", "report">>

AllSections == {"user_profile", "activities", "daily_health_metrics", "fitness_metrics",
                "specialized_health", "llm_analysis_context"}

\* C9: the phases begin in the fixed order authenticate, prober, profile,
\* activities, daily health, fitness, specialized health, synthesizer, write,
\* report, each after the previous one ended; the Capability Set is
\* established once, before any call of a collector, and never changes
\* afterwards; the file is written only after the five collectors and the
\* synthesizer have ended.
C9_PhasesInOrder ==
    /\ [](/\ Len(phaseLog) <= 2 * Len(PhaseOrder)
          /\ \A i \in 1..Len(phaseLog) :
                phaseLog[i] = IF i % 2 = 1 THEN Begin(PhaseOrder[(i + 1) \div 2])
                                           ELSE End(PhaseOrder[i \div 2])
          /\ discoverCount <= 1
          /\ (\E op \in AllOps : Attempted(op)) => discoverCount = 1
          /\ file # "absent" =>
                /\ DOMAIN all_data = AllSections
                /\ \E i \in 1..Len(phaseLog) : phaseLog[i] = End("synthesize"))
    /\ [][/\ discoverCount >= 1 => api_methods' = api_methods /\ discoverCount' = 1
          /\ file # "absent" => all_data' = all_data]_vars

\* a run that went through all ten phases and returned the file name
C9_Witness ==
    /\ result = "filename"
    /\ Len(phaseLog) = 20
    /\ file = "complete"

\* C10: in every fragment of a date-strided collector the window is
\* [today - days_back, today] for the day the collector read as today, every
\* Sample Point's date lies in the window, and within each sequence the dates
\* are strictly ascending.
C10_DatesInWindowAscending ==
    \A c \in DateCollectors :
        Begun(c) =>
            LET f == Fragment(c)
                md == f.metadata
            IN /\ \E t \in Todays :
                    /\ md.period_end = IsoFormat(t)
                    /\ md.period_start = IsoFormat(t - days_back)
               /\ \A key \in DatedKeys(c) :
                    \A i \in 1..Len(f[key]) :
                        /\ IsoLeq(md.period_start, f[key][i].date)
                        /\ IsoLeq(f[key][i].date, md.period_end)
                        /\ i < Len(f[key]) => IsoLess(f[key][i].date, f[key][i + 1].date)

\* a finished run whose daily summaries start at the range start and run
\* from one year into the next
C10_Witness ==
    /\ result = "filename"
    /\ LET f == all_data["daily_health_metrics"]
           n == Len(f.daily_summaries)
       IN /\ n >= 3
          /\ f.daily_summaries[1].date = f.metadata.period_start
          /\ f.daily_summaries[1].date[1] < f.daily_summaries[n].date[1]

(* ---------------------- claims about the synthesizer ------------------- *)
\* the summary fragment without its export_timestamp
WithoutTimestamp(ctx) == [k \in DOMAIN ctx \ {"export_timestamp"} |-> ctx[k]]

\* the merged document the driver handed to the synthesizer
GivenDocument ==
    [k \in DOMAIN all_data \ {"llm_analysis_context"} |-> all_data[k]]

\* the times a later invocation of the synthesizer may read from the clock
ClockValues == {IsoFormat(t) : t \in Todays}

\* C11: the synthesizer is deterministic and free of hidden state: invoked
\* again on the merged document it was given (or on that document with the
\* summary merged in), at any later point of the run and at any time of the
\* clock, it yields the fragment the run stored in everything except
\* export_timestamp; and the invocation leaves the document it was given
\* unchanged: the driver's update adds the one key llm_analysis_context and
\* every section present before is the same afterwards.
C11_SynthesizerDeterministic ==
    /\ []("llm_analysis_context" \in DOMAIN all_data =>
            \A d \in {GivenDocument, all_data} :
                \A ts \in ClockValues :
                    /\ WithoutTimestamp(create_llm_analysis_context(d, ts))
                         = WithoutTimestamp(all_data["llm_analysis_context"])
                    /\ create_llm_analysis_context(d, ts).export_timestamp = ts)
    /\ [][/\ "llm_analysis_context" \notin DOMAIN all_data
          /\ "llm_analysis_context" \in DOMAIN all_data'
          => /\ GivenDocument' = all_data
             /\ DOMAIN all_data' = DOMAIN all_data \cup {"llm_analysis_context"}]_vars

\* a finished run whose summary names activity, sleep and readiness analyses
\* and was stamped the day before the file was written
C11_Witness ==
    /\ result = "filename"
    /\ LET ctx == all_data["llm_analysis_context"]
       IN /\ ctx.export_timestamp # IsoFormat(now)
          /\ "activities" \in DOMAIN ctx.data_overview
          /\ Len(ctx.available_metrics) >= 3
          /\ Len(ctx.suggested_analyses) >= 5

(* -------------------- claims about export_activities ------------------ *)
\* the number of records the list call fetched
Fetched == IF activities_list.kind = "list" THEN Len(activities_list.items) ELSE 0

\* C12: export_activities makes at most 5 detail calls, each for a record
\* among the first 5 of the fetched list, whatever the list's length; in the
\* fragment it emits, total_requested is the limit passed in, actual_count is
\* the number of records fetched (0 when the list call failed or returned
\* nothing), and metadata.detailed_sample is the length of the detailed_sample
\* sequence, which is at most min(5, actual_count).
C12_DetailCallsAndMetadata ==
    /\ callCount["get_activity"] <= Min(DetailLimit, Fetched)
    /\ lastCall.op = "get_activity" =>
          \E i \in 1..Min(DetailLimit, Fetched) : lastCall.arg = <<activities_list.items[i]>>
    /\ lastCall.op = "get_activities" =>
          /\ lastCall.outcome.kind = "raise" => Fetched = 0
          /\ lastCall.outcome.kind = "return" =>
                Fetched = Len(lastCall.outcome.payload.items)
    /\ "activities" \in DOMAIN all_data =>
          LET a == all_data["activities"]
              md == a.metadata
          IN /\ md.total_requested = FullExportLimit
             /\ md.actual_count = Fetched
             /\ md.detailed_sample = Len(a.detailed_sample)
             /\ md.detailed_sample <= Min(DetailLimit, md.actual_count)
             /\ Len(a.detailed_sample) <= callCount["get_activity"]

\* the list call fetched more than five records, five detail calls were made
\* and the fragment reports all records fetched and five detailed ones
C12_Witness ==
    /\ "activities" \in DOMAIN all_data
    /\ Fetched > DetailLimit
    /\ callCount["get_activity"] = DetailLimit
    /\ LET md == all_data["activities"].metadata
       IN /\ md.total_requested = FullExportLimit
          /\ md.actual_count = Fetched
          /\ md.detailed_sample = DetailLimit

====
